---- MODULE Spec2Model ----
(***************************************************************************)
(* A model of arbiter's execution engine: WorkflowJobPool (dispatch, wait, *)
(* get_results), the log relay thread, and Process (run, generate, notify, *)
(* merge_results), as written in src/src/arbiter/__init__.py.              *)
(***************************************************************************)
EXTENDS Integers, Sequences, FiniteSets, TLC

\* ------------------------------------------------------------------ bounds
MaxSources == 2     \* longest 'sources' list explored
MaxOutputs == 2     \* longest 'outputs' list explored
MaxNotifs == 2      \* longest 'notifications' list explored
MaxRecs == 2        \* length of the longest record list a fetch returns
MaxLog == 2         \* log records the workers of one run emit
MaxTimeout == 15    \* largest process_timeout explored
CpuCount == 1       \* multiprocessing.cpu_count() of the host

\* ------------------------------------------------------- program constants
SleepInterval == 10

\* ---------------------------------------------------------------- helpers
Get(d, k, default) == IF k \in DOMAIN d THEN d[k] ELSE default

Last(s) == s[Len(s)]

SeqsUpTo(S, n) == UNION {[1..k -> S] : k \in 0..n}

RECURSIVE Concat(_)
Concat(ss) == IF ss = <<>> THEN <<>> ELSE Head(ss) \o Concat(Tail(ss))

\* str.upper() on the names a configuration or a registry call may use; the
\* names not listed are in upper case already.
Upper(s) ==
    CASE s = "csv" -> "CSV"
      [] s = "Csv" -> "CSV"
      [] s = "email" -> "EMAIL"
      [] s = "nope" -> "NOPE"
      [] s = "json" -> "JSON"
      [] s = "xml" -> "XML"
      [] s = "Xml" -> "XML"
      [] s = "env" -> "ENV"
      [] s = "Env" -> "ENV"
      [] s = "auth" -> "AUTH"
      [] OTHER -> s

\* ------------------------------------------------------------ the registry
\* HANDLERS as built at import time; the class a key names.
HANDLERS == [k \in {"CSV", "JSON", "EMAIL"} |->
                CASE k = "CSV" -> "CsvFile"
                  [] k = "JSON" -> "JsonFile"
                  [] k = "EMAIL" -> "EmailHandler"]

\* __SYSTEM_HANDLERS, the protected names of HANDLERS.
SYSTEM_HANDLERS == {"CSV", "JSON", "EMAIL"}

\* AUTH as built at import time, and __SYSTEM_AUTH.
AUTH == [k \in {"AUTH", "BASIC", "ENV"} |->
            CASE k = "AUTH" -> "auth_string"
              [] k = "BASIC" -> "basic"
              [] k = "ENV" -> "os_env"]

SYSTEM_AUTH == {"AUTH", "BASIC"}

\* Registry.__contains__
Contains(reg, item) == Upper(item) \in DOMAIN reg

\* Registry.__getitem__ (used only where the key is present)
Lookup(reg, key) == reg[Upper(key)]

\* getitem, were it to look the key up as written.
getitem_ExactCase(reg, key) ==
    IF key \in DOMAIN reg
    THEN [val |-> reg[key], exc |-> "None"]
    ELSE [val |-> "", exc |-> "KeyError"]

\* Registry.__getitem__ for any key: the dict raises KeyError for a missing one.
getitem(reg, key) ==
    IF Upper(key) \in DOMAIN reg
    THEN [val |-> reg[Upper(key)], exc |-> "None"]
    ELSE [val |-> "", exc |-> "KeyError"]

\* register, were it to test the name as written.
register_ExactCase(reg, name, ref) ==
    IF name \in DOMAIN reg
    THEN [reg |-> reg, exc |-> "RegistrationError"]
    ELSE [reg |-> [k \in DOMAIN reg \cup {Upper(name)} |->
                      IF k = Upper(name) THEN ref ELSE reg[k]],
          exc |-> "None"]

\* unregister, were it to test the name as written against the protected names.
unregister_ExactCase(reg, req, name) ==
    IF name \notin req
    THEN IF Upper(name) \in DOMAIN reg
         THEN [reg |-> [k \in DOMAIN reg \ {Upper(name)} |-> reg[k]],
               exc |-> "None"]
         ELSE [reg |-> reg, exc |-> "KeyError"]
    ELSE [reg |-> reg, exc |-> "RegistrationError"]

\* Registry.register(name, ref): the registry it leaves and what it raises.
register(reg, name, ref) ==
    IF Upper(name) \in DOMAIN reg
    THEN [reg |-> reg, exc |-> "RegistrationError"]
    ELSE [reg |-> [k \in DOMAIN reg \cup {Upper(name)} |->
                      IF k = Upper(name) THEN ref ELSE reg[k]],
          exc |-> "None"]

\* Registry.unregister(name): 'del' raises KeyError for a missing key.
unregister(reg, req, name) ==
    IF Upper(name) \notin req
    THEN IF Upper(name) \in DOMAIN reg
         THEN [reg |-> [k \in DOMAIN reg \ {Upper(name)} |-> reg[k]],
               exc |-> "None"]
         ELSE [reg |-> reg, exc |-> "KeyError"]
    ELSE [reg |-> reg, exc |-> "RegistrationError"]

\* Capabilities of the built-in handler classes.
HasSet(klass) == klass \in {"CsvFile", "JsonFile"}
HasSend(klass) == klass = "EmailHandler"
HasFilename(klass) == klass \in {"CsvFile", "JsonFile"}

VARIABLES
    config,        \* Process.config: sources, outputs, notifications, ...
    worker,        \* Process.worker: "default" or "custom"
    pc,            \* position of the thread that called Process.run; it stays
                   \* where an exception left the code
    exception,     \* the exception Process.run raised to its caller, or "None"
    pool_results,  \* WorkflowJobPool.results: insertion-ordered name -> job
    jobs,          \* the pool's tasks, one per submitted source index
    finished,      \* the tasks that have finished, in the order they did
    pool_open,     \* the multiprocessing pool is inside its 'with' block
    cursor,        \* loop index of the loop the main thread is in
    elapsed,       \* wait(): elapsed
    timed_out,     \* wait() left its loop with the pool not complete
    results,       \* run(): results returned by get_results
    errors,        \* run(): errors (get_results, then generate)
    self_results,  \* Process.results (the merged Run Result)
    files,         \* Process.files
    handler,       \* generate(): the output whose handler the local variable
                   \* 'handler' holds; 0 while it is unbound
    allerrors,     \* generate(): allerrors
    stored,        \* outputs whose set() completed, in order
    sent,          \* handlers notify() constructed, in order
    logqueue,      \* the manager queue of log records
    delivered,     \* records the relay forwarded to the sink
    relay,         \* the logging thread: "idle", "running", "exited"
    registry,      \* Registry.__registry of the registry under test
    required,      \* Registry.__required of that registry
    regop,         \* the last register/unregister call: its arguments, the
                   \* registry it found and what it raised
    override,      \* WorkflowJobPool.__init__: the 'processes' argument; 0
                   \* stands for None (not supplied)
    processes,     \* WorkflowJobPool.processes
    disk,          \* per stored output: its artifact is "present", "absent",
                   \* or "locked" (present, and os.remove fails)
    keepfile,      \* per stored output: options['keepfile'], or "unset"
    exitcalls,     \* per stored output: calls of its atexit() so far
    exitop         \* the last atexit() call: the output, what it raised, and
                   \* the disk it found

vars == <<config, worker, pc, exception, pool_results, jobs, finished, pool_open, cursor,
          elapsed, timed_out, results, errors, self_results, files, handler,
          allerrors, stored, sent, logqueue, delivered, relay,
          registry, required, regop, override, processes,
          disk, keepfile, exitcalls, exitop>>

poolVars == <<pool_results, jobs, finished, pool_open, elapsed, timed_out>>
genVars == <<self_results, files, handler, allerrors, stored, sent>>
logVars == <<logqueue, delivered, relay>>
regVars == <<registry, required, regop>>
ctorVars == <<override, processes>>
fileVars == <<disk, keepfile, exitcalls, exitop>>

\* ------------------------------------------------------- configurations
Names == {"A", "B"}
Files == <<"out1", "out2", "out3">>

\* A source descriptor: its resource name and its handler key.
SourceDescs == [resource : Names, handler : {"csv", "nope"}]

\* A notification descriptor. on_success and on_failure are optional keys.
\* 'fault' is not a key of the file: it is how the handler built from the
\* descriptor behaves ("ctor": its constructor raises, "send": send() raises).
NotifFlags ==
    {[x \in {} |-> TRUE]}
    \cup [{"on_success"} -> BOOLEAN] \cup [{"on_failure"} -> BOOLEAN]
    \cup [{"on_success", "on_failure"} -> BOOLEAN]

NotifDesc(h, flt, flags) ==
    [k \in {"handler", "fault"} \cup DOMAIN flags |->
        CASE k = "handler" -> h
          [] k = "fault" -> flt
          [] OTHER -> flags[k]]

AllNotifDescs ==
    {NotifDesc(h, "none", fl) : h \in {"email", "csv", "nope"}, fl \in NotifFlags}
    \cup {NotifDesc("email", flt, fl) : flt \in {"ctor", "send"}, fl \in NotifFlags}

\* The descriptors the whole-run specifications draw from.
RunNotifDescs ==
    {NotifDesc("email", "none", [k \in {"on_success"} |-> TRUE]),
     NotifDesc("email", "none", [k \in {"on_failure"} |-> TRUE]),
     NotifDesc("nope", "none", [k \in {"on_failure"} |-> TRUE])}

\* An output descriptor; 'fault' as above ("set": set() raises).
OutputDesc(i, h, flt) == [resource |-> Files[i], handler |-> h, fault |-> flt]

WithNotifications(o, ns) ==
    [k \in DOMAIN o \cup {"notifications"} |->
        IF k = "notifications" THEN ns ELSE o[k]]

\* ------------------------------------------------------ WorkflowJobPool
\* The largest explicit 'processes' argument the pool is built with.
MaxProcesses == 4

\* WorkflowJobPool.__init__: the pool's process count.
\* 'given' is the 'processes' argument, 0 standing for None.
Processes_NoCeiling(n, given) ==
    LET cpus == IF given = 0 THEN CpuCount * 2 ELSE given
    IN IF 0 < n THEN n ELSE cpus

Processes(n, given) ==
    LET cpus == IF given = 0 THEN CpuCount * 2 ELSE given
    IN IF 0 < n /\ n < cpus THEN n ELSE cpus

\* DictSet, were the pool to keep one entry per submitted job.
DictSet_Append(d, name, job) == Append(d, [name |-> name, job |-> job])

\* self.results[name] = job: a dict keeps the position of a key it has.
DictSet(d, name, job) ==
    IF \E p \in 1..Len(d) : d[p].name = name
    THEN [p \in 1..Len(d) |->
            IF d[p].name = name THEN [name |-> name, job |-> job] ELSE d[p]]
    ELSE Append(d, [name |-> name, job |-> job])

\* AsyncResult.ready()
Ready(j) == jobs[j].status \in {"ok", "failed"}

\* WorkflowJobPool.is_complete
is_complete ==
    IF pool_results = <<>> THEN TRUE
    ELSE \A p \in 1..Len(pool_results) : Ready(pool_results[p].job)

\* The records a fetch of source j returns when it returns n of them.
Records(j, n) == [k \in 1..n |-> <<j, k>>]

\* What get() of source j's handler does: it raises, returns None (the stub
\* of FileHandler), or returns a list, here an empty or a longest one.
FetchOutcomes(j) ==
    {[kind |-> "raise", recs |-> <<>>], [kind |-> "None", recs |-> <<>>]}
    \cup {[kind |-> "list", recs |-> Records(j, n)] : n \in {0, MaxRecs}}

\* Process.default_worker: a fault of get() becomes a None result.
default_worker(fetch) ==
    IF fetch.kind = "raise" THEN [kind |-> "None", recs |-> <<>>] ELSE fetch

\* WorkflowJobPool.job_wrapper: construct the handler, then call the worker.
job_wrapper(func, ctor_ok, fetch) ==
    IF ~ctor_ok THEN [kind |-> "raise", recs |-> <<>>]
    ELSE IF func = "default" THEN default_worker(fetch)
    ELSE fetch

NoJob == [status |-> "none", value |-> [kind |-> "None", recs |-> <<>>]]

\* Tasks submitted and not finished. The pool hands tasks to its processes in
\* submission order, so of these the first Processes(...) are running and the
\* others wait in the task queue.
Pending == {j \in DOMAIN jobs : jobs[j].status = "pending"}
Running ==
    {j \in Pending :
        Cardinality({i \in Pending : i < j}) < Processes(Len(config.sources), 0)}
Queued == Pending \ Running

\* Messages of get_results.
TimeoutMsg(k) == <<"Workflow timeout exceeded for '", k, "'">>
FailedMsg(k) == <<"Workflow for '", k, "' failed">>

Sentinel == [kind |-> "sentinel", n |-> 0]

\* The number of records the workers have put on the queue so far.
Emitted ==
    Len(delivered) + Cardinality({p \in 1..Len(logqueue) : logqueue[p] # Sentinel})

\* Process.run, lines 338-347: reset, start the logging thread.
RunStart ==
    /\ pc = "start"
    /\ pc' = "dispatch"
    /\ results' = <<>>
    /\ files' = <<>>
    /\ relay' = "running"
    /\ pool_open' = TRUE
    /\ cursor' = 1
    /\ UNCHANGED <<regVars, ctorVars, fileVars, config, worker, exception, pool_results, jobs, finished, elapsed,
                   timed_out, errors, self_results, handler, allerrors, stored,
                   sent, logqueue, delivered>>

\* Submit, were run to dispatch a source whatever its handler key.
Submit_Always ==
    /\ pc = "dispatch"
    /\ cursor <= Len(config.sources)
    /\ jobs' = [jobs EXCEPT ![cursor].status = "pending"]
    /\ pool_results' = DictSet(pool_results, config.sources[cursor].resource, cursor)
    /\ cursor' = cursor + 1
    /\ UNCHANGED <<regVars, ctorVars, fileVars, config, worker, pc, exception, finished, pool_open,
                   elapsed, timed_out, results, errors, logVars, genVars>>

\* WorkflowJobPool.run: one iteration of 'for s in sources'.
Submit ==
    /\ pc = "dispatch"
    /\ cursor <= Len(config.sources)
    /\ LET s == config.sources[cursor]
       IN IF Contains(HANDLERS, s.handler)
          THEN /\ jobs' = [jobs EXCEPT ![cursor].status = "pending"]
               /\ pool_results' = DictSet(pool_results, s.resource, cursor)
          ELSE UNCHANGED <<jobs, pool_results>>
    /\ cursor' = cursor + 1
    /\ UNCHANGED <<regVars, ctorVars, fileVars, config, worker, pc, exception, finished, pool_open, elapsed,
                   timed_out, results, errors, logVars, genVars>>

\* WorkflowJobPool.run reaches self.wait(); wait() sets elapsed = 0.
WaitStart ==
    /\ pc = "dispatch"
    /\ cursor > Len(config.sources)
    /\ pc' = "wait"
    /\ elapsed' = 0
    /\ UNCHANGED <<regVars, ctorVars, fileVars, config, worker, exception, pool_results, jobs, finished, pool_open,
                   cursor, timed_out, results, errors, logVars, genVars>>

\* WaitLoop, were wait to sleep for as long as a job is unfinished (here up to
\* two sleeps past the timeout).
WaitLoop_IgnoresTimeout ==
    /\ pc = "wait"
    /\ IF ~is_complete /\ elapsed < config.process_timeout + 2 * SleepInterval
       THEN /\ elapsed' = elapsed + SleepInterval
            /\ UNCHANGED <<pc, timed_out>>
       ELSE /\ pc' = "pool_exit"
            /\ timed_out' = ~is_complete
            /\ UNCHANGED elapsed
    /\ UNCHANGED <<regVars, ctorVars, fileVars, config, worker, exception, pool_results, jobs, finished,
                   pool_open, cursor, results, errors, logVars, genVars>>

\* wait(): one test of the loop condition, and one sleep when it holds.
WaitLoop ==
    /\ pc = "wait"
    /\ IF ~is_complete /\ elapsed < config.process_timeout
       THEN /\ elapsed' = elapsed + SleepInterval
            /\ UNCHANGED <<pc, timed_out>>
       ELSE /\ pc' = "pool_exit"
            /\ timed_out' = ~is_complete
            /\ UNCHANGED elapsed
    /\ UNCHANGED <<regVars, ctorVars, fileVars, config, worker, exception, pool_results, jobs, finished, pool_open,
                   cursor, results, errors, logVars, genVars>>

\* Leaving 'with ... Pool(...) as pool': Pool.__exit__ calls terminate(), which
\* stops the workers; a task that has not finished never becomes ready.
PoolExit ==
    /\ pc = "pool_exit"
    /\ jobs' = [j \in DOMAIN jobs |->
                  IF jobs[j].status = "pending"
                  THEN [jobs[j] EXCEPT !.status = "killed"] ELSE jobs[j]]
    /\ pool_open' = FALSE
    /\ pc' = "get_results"
    /\ cursor' = 1
    /\ results' = <<>>
    /\ errors' = <<>>
    /\ UNCHANGED <<regVars, ctorVars, fileVars, config, worker, exception, pool_results, finished, elapsed,
                   timed_out, logVars, genVars>>

\* GetResult, were get_results to let a job's exception through.
GetResult_Raises ==
    /\ pc = "get_results"
    /\ cursor <= Len(pool_results)
    /\ LET j == pool_results[cursor].job
       IN /\ Ready(j)
          /\ IF jobs[j].status = "ok"
             THEN /\ results' = Append(results, jobs[j].value)
                  /\ cursor' = cursor + 1
                  /\ UNCHANGED exception
             ELSE /\ exception' = "Exception"
                  /\ UNCHANGED <<results, cursor>>
    /\ UNCHANGED <<regVars, ctorVars, fileVars, config, worker, pc, errors, poolVars, logVars, genVars>>

\* get_results(): one iteration of 'for k in self.results'. get() has no
\* timeout: it returns or raises once the task is ready and blocks until then.
GetResult ==
    /\ pc = "get_results"
    /\ cursor <= Len(pool_results)
    /\ LET k == pool_results[cursor].name
           j == pool_results[cursor].job
       IN /\ Ready(j)
          /\ IF jobs[j].status = "ok"
             THEN /\ results' = Append(results, jobs[j].value)
                  /\ UNCHANGED errors
             ELSE /\ errors' = Append(errors, FailedMsg(k))
                  /\ UNCHANGED results
    /\ cursor' = cursor + 1
    /\ UNCHANGED <<regVars, ctorVars, fileVars, config, worker, pc, exception, poolVars, logVars, genVars>>

\* get_results() returns to Process.run.
GetResultsReturn ==
    /\ pc = "get_results"
    /\ cursor > Len(pool_results)
    /\ pc' = "sentinel"
    /\ UNCHANGED <<regVars, ctorVars, fileVars, config, worker, exception, poolVars, cursor, results, errors,
                   logVars, genVars>>

\* A running worker logs through the QueueHandler job_wrapper installed; the
\* default worker ignores the logger it is given. A record is told from the
\* others by n, its rank among the records put on the queue.
JobLog(j) ==
    /\ j \in Running
    /\ worker = "custom"
    /\ Emitted < MaxLog
    /\ logqueue' = Append(logqueue,
                          [kind |-> "record", n |-> Emitted + 1])
    /\ UNCHANGED <<regVars, ctorVars, fileVars, config, worker, pc, exception, pool_results, jobs, finished, pool_open,
                   cursor, elapsed, timed_out, results, errors, delivered, relay,
                   genVars>>

\* job_wrapper returns or raises in the worker; the task becomes ready.
JobFinish(j) ==
    /\ j \in Running
    /\ \E ctor_ok \in BOOLEAN, fetch \in FetchOutcomes(j) :
          LET out == job_wrapper(worker, ctor_ok, fetch)
          IN jobs' = [jobs EXCEPT
                        ![j].status = IF out.kind = "raise" THEN "failed" ELSE "ok",
                        ![j].value = out]
    /\ finished' = Append(finished, j)
    /\ UNCHANGED <<regVars, ctorVars, fileVars, config, worker, pc, exception, pool_results, pool_open,
                   cursor, elapsed, timed_out, results, errors, logVars, genVars>>

\* ------------------------------------------------------------ log relay
\* RelayGet, were the thread to hand the sink the newest record first.
RelayGet_Prepends ==
    /\ relay = "running"
    /\ logqueue # <<>>
    /\ logqueue' = Tail(logqueue)
    /\ IF Head(logqueue) = Sentinel
       THEN relay' = "exited" /\ UNCHANGED delivered
       ELSE delivered' = <<Head(logqueue)>> \o delivered /\ UNCHANGED relay
    /\ UNCHANGED <<regVars, ctorVars, fileVars, config, worker, pc, exception, poolVars, cursor,
                   results, errors, genVars>>

\* Process.logging_thread: one iteration of 'while True'.
RelayGet ==
    /\ relay = "running"
    /\ logqueue # <<>>
    /\ logqueue' = Tail(logqueue)
    /\ IF Head(logqueue) = Sentinel
       THEN relay' = "exited" /\ UNCHANGED delivered
       ELSE delivered' = Append(delivered, Head(logqueue)) /\ UNCHANGED relay
    /\ UNCHANGED <<regVars, ctorVars, fileVars, config, worker, pc, exception, poolVars, cursor, results,
                   errors, genVars>>

\* Process.run, line 358: log_queue.put_nowait(None)
PutSentinel ==
    /\ pc = "sentinel"
    /\ logqueue' = Append(logqueue, Sentinel)
    /\ pc' = "join"
    /\ UNCHANGED <<regVars, ctorVars, fileVars, config, worker, exception, poolVars, cursor, results, errors,
                   delivered, relay, genVars>>

\* Join, were run to generate the outputs whatever get_results returned.
Join_AlwaysGenerates ==
    /\ pc = "join"
    /\ relay = "exited"
    /\ pc' = "generate"
    /\ UNCHANGED <<regVars, ctorVars, fileVars, config, worker, exception, poolVars, cursor, results,
                   errors, logVars, genVars>>

\* Process.run, lines 359-361: logthread.join(), then 'if not errors'.
Join ==
    /\ pc = "join"
    /\ relay = "exited"
    /\ pc' = IF errors = <<>> THEN "generate" ELSE "notify_errors"
    /\ UNCHANGED <<regVars, ctorVars, fileVars, config, worker, exception, poolVars, cursor, results, errors,
                   logVars, genVars>>

\* ------------------------------------------------------------- Process
\* merge_results, were it to put each result before the ones merged so far.
RECURSIVE merge_results_Prepend(_)
merge_results_Prepend(rs) ==
    IF rs = <<>> THEN <<>> ELSE merge_results_Prepend(Tail(rs)) \o Head(rs).recs

\* Process.merge_results: 'for r in results: data.extend(r)'.
RECURSIVE merge_results(_)
merge_results(rs) ==
    IF rs = <<>> THEN <<>> ELSE Head(rs).recs \o merge_results(Tail(rs))

\* Fires, were a missing on_success or on_failure key to count as true.
Fires_DefaultTrue(n, errs) ==
    \/ errs = <<>> /\ Get(n, "on_success", TRUE)
    \/ errs # <<>> /\ Get(n, "on_failure", TRUE)

\* The firing test of Process.notify, lines 269-270.
Fires(n, errs) ==
    \/ errs = <<>> /\ Get(n, "on_success", FALSE)
    \/ errs # <<>> /\ Get(n, "on_failure", FALSE)

\* handler.send() of the handler built from descriptor n.
SendOutcome(n) ==
    IF ~HasSend(Lookup(HANDLERS, n.handler)) THEN "AttributeError"
    ELSE IF n.fault = "send" THEN "Exception"
    ELSE "ok"

\* Process.notify from descriptor i on: the handlers it constructs, in order,
\* and the exception it raises ("None" when it returns). The name
\* UnknownHandlerError is not defined in the module (only 'exceptions' is
\* imported), so line 267 raises NameError before raise_error is called.
RECURSIVE notify_from(_, _, _, _)
notify_from(descs, i, fs, errs) ==
    IF i > Len(descs) THEN [sent |-> <<>>, exc |-> "None"]
    ELSE LET n == descs[i]
             rest == notify_from(descs, i + 1, fs, errs)
         IN IF ~Contains(HANDLERS, n.handler)
            THEN [sent |-> <<>>, exc |-> "NameError"]
            ELSE IF ~Fires(n, errs) THEN rest
            ELSE IF n.fault = "ctor" THEN [sent |-> <<>>, exc |-> "Exception"]
            ELSE LET entry == [idx |-> i, files |-> fs, errors |-> errs,
                               send |-> SendOutcome(n)]
                 IN IF SendOutcome(n) = "AttributeError" /\ config.raise_error
                    THEN [sent |-> <<entry>>, exc |-> "AttributeError"]
                    ELSE [sent |-> <<entry>> \o rest.sent, exc |-> rest.exc]

\* Process.notify(config, files, errors)
notify(descs, fs, errs) == notify_from(descs, 1, fs, errs)

\* The entries of one notify call, tagged with the call that made them.
Tagged(entries, kind, n) ==
    [p \in 1..Len(entries) |->
        [call |-> [kind |-> kind, n |-> n], idx |-> entries[p].idx,
         files |-> entries[p].files, errors |-> entries[p].errors,
         send |-> entries[p].send]]

\* The fault of one output's try block, lines 302-318.
OutputFault(o) ==
    IF ~Contains(HANDLERS, o.handler) THEN "KeyError"
    ELSE IF o.fault = "ctor" THEN "Exception"
    ELSE IF ~HasSet(Lookup(HANDLERS, o.handler)) THEN "AttributeError"
    ELSE IF o.fault = "set" THEN "Exception"
    ELSE "None"

\* The message of lines 310-317 for a fault.
OutputMsg(o, fault) ==
    CASE fault = "KeyError" -> <<"Unknown output handler: ", o.handler>>
      [] fault = "AttributeError" -> <<"AttributeError", o.handler>>
      [] OTHER -> <<"Exception occurred: ", o.resource>>

\* Process.generate, lines 292-294: merge, then pre(). extend(None) raises
\* TypeError, outside any try.
GenStart ==
    /\ exception = "None"
    /\ pc = "generate"
    /\ IF \E p \in 1..Len(results) : results[p].kind = "None"
       THEN /\ exception' = "TypeError"
            /\ UNCHANGED <<pc, self_results, allerrors, cursor, handler>>
       ELSE /\ self_results' = merge_results(results)
            /\ allerrors' = <<>>
            /\ handler' = 0
            /\ cursor' = 1
            /\ pc' = "outputs"
            /\ UNCHANGED exception
    /\ UNCHANGED <<regVars, ctorVars, fileVars, config, worker, poolVars, results, errors, files, stored,
                   sent, logVars>>

\* Process.generate: one iteration of 'for o in self.config[outputs]'.
GenOutput ==
    /\ exception = "None"
    /\ pc = "outputs"
    /\ cursor <= Len(config.outputs)
    /\ LET o == config.outputs[cursor]
           fault == OutputFault(o)
           \* 'handler' is assigned once the constructor has returned
           h == IF fault = "KeyError" \/ o.fault = "ctor" THEN handler ELSE cursor
           errs == IF fault = "None" THEN <<>> ELSE <<OutputMsg(o, fault)>>
           escalates == fault = "KeyError" \/ (fault # "None" /\ config.raise_error)
           has_notifs == "notifications" \in DOMAIN o
           fname_exc ==
               IF h = 0 THEN "UnboundLocalError"
               ELSE IF ~HasFilename(Lookup(HANDLERS, config.outputs[h].handler))
               THEN "AttributeError"
               ELSE "None"
           note == IF has_notifs /\ ~escalates /\ fname_exc = "None"
                   THEN notify(o.notifications, <<config.outputs[h].resource>>, errs)
                   ELSE [sent |-> <<>>, exc |-> "None"]
           exc == IF fault = "KeyError" THEN "NameError"
                  ELSE IF escalates THEN fault
                  ELSE IF has_notifs /\ fname_exc # "None" THEN fname_exc
                  ELSE note.exc
       IN /\ handler' = h
          /\ stored' = IF fault = "None" THEN Append(stored, cursor) ELSE stored
          /\ files' = IF fault = "None" /\ HasFilename(Lookup(HANDLERS, o.handler))
                      THEN Append(files, o.resource) ELSE files
          /\ sent' = sent \o Tagged(note.sent, "output", cursor)
          /\ IF exc # "None"
             THEN /\ exception' = exc
                  /\ UNCHANGED <<pc, allerrors, cursor>>
             ELSE /\ allerrors' = allerrors \o errs
                  /\ cursor' = cursor + 1
                  /\ UNCHANGED <<pc, exception>>
    /\ UNCHANGED <<regVars, ctorVars, fileVars, config, worker, poolVars, results, errors, self_results,
                   logVars>>

\* GenReturn, were generate to run post() and return before the last output.
GenReturn_Early ==
    /\ exception = "None"
    /\ pc = "outputs"
    /\ errors' = allerrors
    /\ pc' = "notify_all"
    /\ UNCHANGED <<regVars, ctorVars, fileVars, config, worker, exception, poolVars, cursor, results,
                   genVars, logVars>>

\* Process.generate, lines 332-334, and run, line 363: post(), return allerrors.
GenReturn ==
    /\ exception = "None"
    /\ pc = "outputs"
    /\ cursor > Len(config.outputs)
    /\ errors' = allerrors
    /\ pc' = "notify_all"
    /\ UNCHANGED <<regVars, ctorVars, fileVars, config, worker, exception, poolVars, cursor, results,
                   genVars, logVars>>

\* Process.run, lines 365-368: the notify call after generate.
NotifyAll ==
    /\ exception = "None"
    /\ pc = "notify_all"
    /\ LET note == IF "notifications" \in DOMAIN config
                   THEN notify(config.notifications, files, errors)
                   ELSE [sent |-> <<>>, exc |-> "None"]
       IN /\ sent' = sent \o Tagged(note.sent, "run", 1)
          /\ exception' = note.exc
          /\ pc' = IF note.exc = "None" THEN "notify_errors" ELSE pc
    /\ UNCHANGED <<regVars, ctorVars, fileVars, config, worker, poolVars, cursor, results, errors,
                   self_results, files, handler, allerrors, stored, logVars>>

\* Process.run, lines 370-374: the error notifications, 'Process complete'.
NotifyErrors ==
    /\ exception = "None"
    /\ pc = "notify_errors"
    /\ LET note == IF errors # <<>> /\ "notifications" \in DOMAIN config
                   THEN notify(config.notifications, <<>>, errors)
                   ELSE [sent |-> <<>>, exc |-> "None"]
       IN /\ sent' = sent \o Tagged(note.sent, "run", 2)
          /\ exception' = note.exc
          /\ pc' = IF note.exc = "None" THEN "complete" ELSE pc
    /\ UNCHANGED <<regVars, ctorVars, fileVars, config, worker, poolVars, cursor, results, errors,
                   self_results, files, handler, allerrors, stored, logVars>>

\* --------------------------------------------------------- specifications
\* The configurations of the gather phase: every list of sources, a timeout
\* of zero and one longer than a sleep, both kinds of worker.
SourceLists == SeqsUpTo(SourceDescs, MaxSources)
Timeouts == {0, MaxTimeout}

\* Output lists: each output a file handler that stores, fails in set() or in
\* its constructor, a handler without set(), or an unregistered key; each with
\* or without a 'notifications' list of its own.
OutputKinds == {<<"csv", "none">>, <<"csv", "set">>, <<"csv", "ctor">>,
                <<"email", "none">>, <<"nope", "none">>}
OwnNotifications ==
    {<<>>, <<NotifDesc("email", "none",
                       [k \in {"on_success", "on_failure"} |-> TRUE])>>}
OutputLists ==
    UNION {{[i \in 1..n |->
                IF ns[i] = <<>> THEN OutputDesc(i, hf[i][1], hf[i][2])
                ELSE WithNotifications(OutputDesc(i, hf[i][1], hf[i][2]), ns[i])] :
              hf \in [1..n -> OutputKinds], ns \in [1..n -> OwnNotifications]} :
           n \in 0..MaxOutputs}

NotifLists == SeqsUpTo(RunNotifDescs, MaxNotifs)

\* Configurations without and with a 'notifications' section.
Configs(srcs, outs, notes, timeouts, raises) ==
    {[sources |-> s, outputs |-> o, process_timeout |-> t, raise_error |-> r] :
        s \in srcs, o \in outs, t \in timeouts, r \in raises}
    \cup {[sources |-> s, outputs |-> o, process_timeout |-> t, raise_error |-> r,
           notifications |-> n] :
        s \in srcs, o \in outs, t \in timeouts, r \in raises, n \in notes}

\* A registry as the module builds it at import time, no call made on it yet.
NoCall(reg) == [op |-> "none", name |-> "", ref |-> "", exc |-> "None",
                before |-> reg]

AtImport(reg, req) ==
    /\ registry = reg
    /\ required = req
    /\ regop = NoCall(reg)

\* The pool Process.run builds for configuration c: no 'processes' argument.
PoolFor(c) ==
    /\ override = 0
    /\ processes = Processes(Len(c.sources), 0)

\* No output has been stored, no cleanup is registered.
NoExit == [i |-> 0, exc |-> "None", before |-> <<>>]

NoArtifacts ==
    /\ disk = <<>>
    /\ keepfile = <<>>
    /\ exitcalls = <<>>
    /\ exitop = NoExit

\* The state Process.__init__ leaves, for a configuration c and a worker w.
ProcessInit(c, w) ==
    /\ config = c
    /\ worker = w
    /\ exception = "None"
    /\ pool_results = <<>>
    /\ jobs = [j \in 1..Len(c.sources) |-> NoJob]
    /\ finished = <<>>
    /\ pool_open = FALSE
    /\ cursor = 0
    /\ elapsed = 0
    /\ timed_out = FALSE
    /\ results = <<>>
    /\ errors = <<>>
    /\ self_results = <<>>
    /\ files = <<>>
    /\ handler = 0
    /\ allerrors = <<>>
    /\ stored = <<>>
    /\ sent = <<>>
    /\ logqueue = <<>>
    /\ delivered = <<>>
    /\ relay = "idle"
    /\ AtImport(HANDLERS, SYSTEM_HANDLERS)

Constructed(c, w) ==
    /\ ProcessInit(c, w)
    /\ pc = "start"
    /\ PoolFor(c)
    /\ NoArtifacts

Init ==
    \E c \in Configs(SourceLists, {<<OutputDesc(1, "csv", "none")>>}, {},
                     Timeouts, {FALSE}),
       w \in {"default", "custom"} :
        Constructed(c, w)

Next ==
    \/ RunStart
    \/ Submit
    \/ WaitStart
    \/ WaitLoop
    \/ PoolExit
    \/ GetResult
    \/ GetResultsReturn
    \/ PutSentinel
    \/ Join
    \/ GenStart
    \/ GenOutput
    \/ GenReturn
    \/ NotifyAll
    \/ NotifyErrors
    \/ RelayGet
    \/ \E j \in DOMAIN jobs : JobLog(j)
    \/ \E j \in DOMAIN jobs : JobFinish(j)

Spec == Init /\ [][Next]_vars

\* The run from the return of get_results on, for every list of outputs and of
\* notifications: no source, or one source whose job has failed, returned None
\* or returned one record; the pool is closed and the relay still runs.
InitOutputs ==
    \E c \in Configs({<<>>, <<[resource |-> "A", handler |-> "csv"]>>},
                     OutputLists, NotifLists, {MaxTimeout}, BOOLEAN),
       out \in {[kind |-> "raise", recs |-> <<>>], [kind |-> "None", recs |-> <<>>],
                [kind |-> "list", recs |-> Records(1, 1)]} :
        /\ config = c
        /\ worker = "default"
        /\ pc = "sentinel"
        /\ exception = "None"
        /\ pool_results = [p \in 1..Len(c.sources) |-> [name |-> "A", job |-> 1]]
        /\ jobs = [j \in 1..Len(c.sources) |->
                     [status |-> IF out.kind = "raise" THEN "failed" ELSE "ok",
                      value |-> out]]
        /\ finished = [p \in 1..Len(c.sources) |-> 1]
        /\ pool_open = FALSE
        /\ cursor = Len(c.sources) + 1
        /\ elapsed = 0
        /\ timed_out = FALSE
        /\ results = IF c.sources = <<>> \/ out.kind = "raise" THEN <<>> ELSE <<out>>
        /\ errors = IF c.sources # <<>> /\ out.kind = "raise"
                    THEN <<FailedMsg("A")>> ELSE <<>>
        /\ self_results = <<>>
        /\ files = <<>>
        /\ handler = 0
        /\ allerrors = <<>>
        /\ stored = <<>>
        /\ sent = <<>>
        /\ logqueue = <<>>
        /\ delivered = <<>>
        /\ relay = "running"
        /\ AtImport(HANDLERS, SYSTEM_HANDLERS)
        /\ PoolFor(config)
        /\ NoArtifacts

NextOutputs ==
    \/ PutSentinel
    \/ RelayGet
    \/ Join
    \/ GenStart
    \/ GenOutput
    \/ GenReturn
    \/ NotifyAll
    \/ NotifyErrors

SpecOutputs == InitOutputs /\ [][NextOutputs]_vars

\* One call of Process.notify(descs, files, errors), for every list of
\* descriptors, an empty and two non-empty error lists, raise_error on or off.
ErrorLists == {<<>>, <<FailedMsg("A")>>, <<FailedMsg("A"), FailedMsg("B")>>}

InitNotify ==
    \E descs \in SeqsUpTo(AllNotifDescs, MaxNotifs), errs \in ErrorLists,
       r \in BOOLEAN :
        /\ config = [sources |-> <<>>, outputs |-> <<>>,
                     process_timeout |-> MaxTimeout,
                     raise_error |-> r, notifications |-> descs]
        /\ worker = "default"
        /\ pc = "notify"
        /\ exception = "None"
        /\ pool_results = <<>>
        /\ jobs = <<>>
        /\ finished = <<>>
        /\ pool_open = FALSE
        /\ cursor = 0
        /\ elapsed = 0
        /\ timed_out = FALSE
        /\ results = <<>>
        /\ errors = errs
        /\ self_results = <<>>
        /\ files = <<Files[1]>>
        /\ handler = 0
        /\ allerrors = <<>>
        /\ stored = <<>>
        /\ sent = <<>>
        /\ logqueue = <<>>
        /\ delivered = <<>>
        /\ relay = "idle"
        /\ AtImport(HANDLERS, SYSTEM_HANDLERS)
        /\ PoolFor(config)
        /\ NoArtifacts

\* The call returns or raises.
NotifyCall ==
    /\ pc = "notify"
    /\ LET note == notify(config.notifications, files, errors)
       IN /\ sent' = Tagged(note.sent, "call", 1)
          /\ exception' = note.exc
    /\ pc' = "notified"
    /\ UNCHANGED <<regVars, ctorVars, fileVars, config, worker, poolVars, cursor, results, errors,
                   self_results, files, handler, allerrors, stored, logVars>>

NextNotify == NotifyCall

SpecNotify == InitNotify /\ [][NextNotify]_vars

\* WorkflowJobPool(config, handler, processes): built for source lists of every
\* length, without a 'processes' argument (0) and with each explicit one.
InitProcesses ==
    \E c \in Configs(SourceLists, {<<>>}, {}, {MaxTimeout}, {FALSE}),
       o \in 0..MaxProcesses :
        /\ ProcessInit(c, "default")
        /\ pc = "pool_init"
        /\ override = o
        /\ processes = 0
        /\ NoArtifacts

PoolInit ==
    /\ pc = "pool_init"
    /\ processes' = Processes(Len(config.sources), override)
    /\ pc' = "pool_built"
    /\ UNCHANGED <<regVars, fileVars, config, worker, exception, cursor,
                   results, errors, poolVars, genVars, logVars, override>>

NextProcesses == PoolInit

SpecProcesses == InitProcesses /\ [][NextProcesses]_vars

\* ----------------------------------------------------------- FileHandler
\* The calls of one handler's atexit() the model follows.
MaxExitCalls == 2

\* os.remove(filename): removes a present file, raises FileNotFoundError for
\* an absent one and PermissionError for one the system will not remove.
os_remove(d) ==
    CASE d = "present" -> [disk |-> "absent", exc |-> "None"]
      [] d = "absent" -> [disk |-> "absent", exc |-> "FileNotFoundError"]
      [] d = "locked" -> [disk |-> "locked", exc |-> "PermissionError"]

atexit_IgnoresKeepfile(d, k) ==
    LET r == os_remove(d)
    IN [disk |-> r.disk, exc |-> "None", printed |-> r.exc]

\* FileHandler.atexit on an artifact in state d, with options['keepfile'] k:
\* what is on disk afterwards, what the call raises, what it prints.
atexit(d, k) ==
    IF k = "true"
    THEN [disk |-> d, exc |-> "None", printed |-> "None"]
    ELSE LET r == os_remove(d)
         IN [disk |-> r.disk, exc |-> "None", printed |-> r.exc]

\* Process exit after generate stored n outputs and registered the atexit of
\* each: every artifact still there, already gone, or not removable; every
\* handler with keepfile missing, false or true.
InitCleanup ==
    \E n \in 1..MaxOutputs :
        /\ ProcessInit([sources |-> <<>>,
                        outputs |-> [i \in 1..n |-> OutputDesc(i, "csv", "none")],
                        process_timeout |-> MaxTimeout, raise_error |-> FALSE],
                       "default")
        /\ pc = "exit"
        /\ PoolFor(config)
        /\ disk \in [1..n -> {"present", "absent", "locked"}]
        /\ keepfile \in [1..n -> {"unset", "false", "true"}]
        /\ exitcalls = [i \in 1..n |-> 0]
        /\ exitop = NoExit

\* The interpreter (or anyone else) calls the atexit of output i's handler.
AtExit(i) ==
    /\ pc = "exit"
    /\ i \in DOMAIN disk
    /\ exitcalls[i] < MaxExitCalls
    /\ LET r == atexit(disk[i], keepfile[i])
       IN /\ disk' = [disk EXCEPT ![i] = r.disk]
          /\ exitop' = [i |-> i, exc |-> r.exc, before |-> disk]
    /\ exitcalls' = [exitcalls EXCEPT ![i] = @ + 1]
    /\ UNCHANGED <<regVars, ctorVars, config, worker, pc, exception, cursor,
                   results, errors, poolVars, genVars, logVars, keepfile>>

NextCleanup == \E i \in 1..MaxOutputs : AtExit(i)

SpecCleanup == InitCleanup /\ [][NextCleanup]_vars

\* Calls of register and unregister, in any order and number, on HANDLERS or
\* on AUTH as the module builds them: names in several letter cases, some
\* registered at import, some protected, some new.
RegNames == {"csv", "Csv", "CSV", "json", "xml", "Xml", "XML",
             "env", "Env", "ENV", "auth", "BASIC"}
NewRefs == {"f", "g"}

engineVars == <<config, worker, pc, exception, cursor, results, errors,
                poolVars, genVars, logVars, ctorVars, fileVars>>

InitRegistry ==
    /\ \/ AtImport(HANDLERS, SYSTEM_HANDLERS)
       \/ AtImport(AUTH, SYSTEM_AUTH)
    /\ config = [sources |-> <<>>, outputs |-> <<>>,
                 process_timeout |-> MaxTimeout, raise_error |-> FALSE]
    /\ worker = "default"
    /\ PoolFor(config)
    /\ NoArtifacts
    /\ pc = "registry"
    /\ exception = "None"
    /\ pool_results = <<>>
    /\ jobs = <<>>
    /\ finished = <<>>
    /\ pool_open = FALSE
    /\ cursor = 0
    /\ elapsed = 0
    /\ timed_out = FALSE
    /\ results = <<>>
    /\ errors = <<>>
    /\ self_results = <<>>
    /\ files = <<>>
    /\ handler = 0
    /\ allerrors = <<>>
    /\ stored = <<>>
    /\ sent = <<>>
    /\ logqueue = <<>>
    /\ delivered = <<>>
    /\ relay = "idle"

\* A call of Registry.register(name, ref).
Register ==
    /\ pc = "registry"
    /\ \E name \in RegNames, ref \in NewRefs :
          LET out == register(registry, name, ref)
          IN /\ registry' = out.reg
             /\ regop' = [op |-> "register", name |-> name, ref |-> ref,
                          exc |-> out.exc, before |-> registry]
    /\ UNCHANGED <<required, engineVars>>

\* A call of Registry.unregister(name).
Unregister ==
    /\ pc = "registry"
    /\ \E name \in RegNames :
          LET out == unregister(registry, required, name)
          IN /\ registry' = out.reg
             /\ regop' = [op |-> "unregister", name |-> name, ref |-> "",
                          exc |-> out.exc, before |-> registry]
    /\ UNCHANGED <<required, engineVars>>

NextRegistry ==
    \/ Register
    \/ Unregister

SpecRegistry == InitRegistry /\ [][NextRegistry]_vars

\* WorkflowJobPool.run up to the return of wait(), for every list of sources
\* and a timeout of zero, of one sleep, and of more than one sleep; the main
\* thread keeps taking its steps.
WaitTimeouts == {0, SleepInterval, MaxTimeout}

InitWait ==
    \E c \in Configs(SourceLists, {<<>>}, {}, WaitTimeouts, {FALSE}) :
        Constructed(c, "default")

NextWait ==
    \/ RunStart
    \/ Submit
    \/ WaitStart
    \/ WaitLoop
    \/ \E j \in DOMAIN jobs : JobFinish(j)

SpecWait == InitWait /\ [][NextWait]_vars /\ WF_vars(WaitLoop)

\* ------------------------------------------------------------- claims
Count(seq, x) == Cardinality({p \in 1..Len(seq) : seq[p] = x})

RECURSIVE SumLen(_)
SumLen(rs) == IF rs = <<>> THEN 0 ELSE Len(Head(rs).recs) + SumLen(Tail(rs))

\* get() waits for a task that the closed pool will never finish.
GetResultsBlocked ==
    /\ pc = "get_results"
    /\ cursor <= Len(pool_results)
    /\ jobs[pool_results[cursor].job].status = "killed"

\* C1: when wait gives up on the timeout with a job unfinished, get_results
\* does not wait for that job, and it returns with a "timeout exceeded"
\* message for it.
C1_TimeoutClassified ==
    /\ ~GetResultsBlocked
    /\ (pc = "sentinel" /\ timed_out) =>
          \E p \in 1..Len(pool_results) :
              Count(errors, TimeoutMsg(pool_results[p].name)) = 1

\* C2: the run is never stuck short of 'Process complete': while it has
\* neither completed nor raised, some step of the program can be taken.
C2_NeverStuck ==
    (pc # "complete" /\ exception = "None") => ENABLED Next

\* C3: with raise_error false, Process.run raises nothing to its caller.
C3_NeverRaises ==
    ~config.raise_error => exception = "None"

\* The run has ended: it logged 'Process complete' or it raised.
RunOver == pc = "complete" \/ exception # "None"

\* Gather or generate has produced an error: a message in the error list, or
\* the fault of the output at which the run raised.
ErrorsProduced ==
    \/ errors # <<>>
    \/ allerrors # <<>>
    \/ /\ pc = "outputs"
       /\ exception # "None"
       /\ OutputFault(config.outputs[cursor]) # "None"

StoredPaths == [p \in 1..Len(stored) |-> config.outputs[stored[p]].resource]

RunSends == {p \in 1..Len(sent) : sent[p].call.kind = "run"}

\* C4: a run with a notifications section ends with the on_success descriptors
\* (those that name a registered handler) fired with the stored outputs' paths
\* when no error was produced, and otherwise with the on_failure descriptors
\* fired with the error list and nothing fired under on_success.
C4_RunNotifications ==
    (RunOver /\ "notifications" \in DOMAIN config) =>
        LET ns == config.notifications
        IN IF ~ErrorsProduced
           THEN \A i \in 1..Len(ns) :
                    (Get(ns[i], "on_success", FALSE)
                        /\ Contains(HANDLERS, ns[i].handler)) =>
                        \E p \in RunSends :
                            /\ sent[p].idx = i
                            /\ sent[p].files = StoredPaths
                            /\ sent[p].errors = <<>>
           ELSE /\ \A i \in 1..Len(ns) :
                    (Get(ns[i], "on_failure", FALSE)
                        /\ Contains(HANDLERS, ns[i].handler)) =>
                        \E p \in RunSends :
                            /\ sent[p].idx = i
                            /\ sent[p].errors = errors
                            /\ errors # <<>>
                /\ \A p \in RunSends :
                    /\ sent[p].errors # <<>>
                    /\ Get(ns[sent[p].idx], "on_failure", FALSE)

\* The descriptors of a notify call that the rule selects, those at which
\* the call raises, and the first of these.
\* The descriptors the firing rule selects: on_success present and true when
\* the error list is empty, on_failure present and true when it is not.
Selected ==
    {i \in 1..Len(config.notifications) :
        LET n == config.notifications[i]
        IN IF errors = <<>>
           THEN "on_success" \in DOMAIN n /\ n.on_success
           ELSE "on_failure" \in DOMAIN n /\ n.on_failure}
CtorFaults == {i \in Selected : config.notifications[i].fault = "ctor"}
SendEscalates ==
    {i \in Selected :
        /\ config.notifications[i].fault # "ctor"
        /\ SendOutcome(config.notifications[i]) = "AttributeError"
        /\ config.raise_error}
FirstAbort ==
    LET ab == CtorFaults \cup SendEscalates
    IN IF ab = {} THEN Len(config.notifications) + 1
       ELSE CHOOSE i \in ab : \A k \in ab : i <= k

AllRegistered ==
    \A i \in 1..Len(config.notifications) :
        Contains(HANDLERS, config.notifications[i].handler)

InOrder == \A p, q \in 1..Len(sent) : p < q => sent[p].idx < sent[q].idx

\* C5 as stated: a call of notify on registered handlers sends to exactly the
\* selected descriptors, in descriptor order (here for the calls in which
\* every handler's constructor succeeds).
C5_ExactlySelected ==
    (pc = "notified" /\ AllRegistered /\ CtorFaults = {}) =>
        /\ {sent[p].idx : p \in 1..Len(sent)} = Selected
        /\ InOrder

\* C5, amended: the call handles the selected descriptors in order, each with
\* the files and errors it was given, up to the first one whose handler cannot
\* be constructed or, with raise_error true, has no send(); there it raises.
\* With no such descriptor it sends to exactly the selected ones and returns.
C5_SelectedUntilRaise ==
    (pc = "notified" /\ AllRegistered) =>
        /\ {sent[p].idx : p \in 1..Len(sent)} =
              {i \in Selected : i < FirstAbort} \cup (SendEscalates \cap {FirstAbort})
        /\ InOrder
        /\ \A p \in 1..Len(sent) : sent[p].files = files /\ sent[p].errors = errors
        /\ (exception = "None") <=> (FirstAbort > Len(config.notifications))

\* C5's case: two descriptors, a flag missing, the first selected, the second not.
C5_Witness ==
    /\ pc = "notified"
    /\ AllRegistered
    /\ exception = "None"
    /\ Len(config.notifications) = 2
    /\ "on_failure" \notin DOMAIN config.notifications[2]
    /\ errors # <<>>
    /\ Len(sent) = 1
    /\ sent[1].idx = 1

\* The names under which a job record exists: those of the sources whose
\* handler key is registered.
DispatchedNames ==
    {config.sources[i].resource :
        i \in {k \in 1..Len(config.sources) :
                  Contains(HANDLERS, config.sources[k].handler)}}

\* C6 as stated: without a timeout, get_results returns one outcome per
\* configured source.
C6_OnePerSource ==
    (pc = "sentinel" /\ ~timed_out) =>
        Len(results) + Len(errors) = Len(config.sources)

\* C6, amended: without a timeout, get_results returns one outcome per job
\* record, that is per distinct resource name among the sources whose handler
\* key is registered, and no record is left unfinished.
C6_OnePerRecord ==
    (pc = "sentinel" /\ ~timed_out) =>
        /\ Len(results) + Len(errors) = Cardinality(DispatchedNames)
        /\ \A p \in 1..Len(pool_results) : Ready(pool_results[p].job)
        /\ {pool_results[p].name : p \in 1..Len(pool_results)} = DispatchedNames

\* C6's case: two sources, one of them dropped or overwritten, one outcome.
C6_Witness ==
    /\ pc = "sentinel"
    /\ ~timed_out
    /\ Len(config.sources) = 2
    /\ Len(results) + Len(errors) = 1

\* C7: once WorkflowJobPool.run has returned, every submitted job is in a
\* terminal state: succeeded, failed or timed out.
C7_AllTerminal ==
    pc \notin {"start", "dispatch", "wait", "pool_exit"} =>
        \A j \in DOMAIN jobs :
            jobs[j].status \in {"none", "ok", "failed", "timed_out"}

\* C8: the pool never stops a job: a job that was submitted is pending,
\* running or finished, also after wait has given up and run has returned.
C8_NotCancelled ==
    \A j \in DOMAIN jobs : jobs[j].status \in {"none", "pending", "ok", "failed"}

\* The records get_results has handled so far.
Handled == 1..((IF pc = "get_results" THEN cursor ELSE Len(pool_results) + 1) - 1)
HandledFailed == {p \in Handled : jobs[pool_results[p].job].status = "failed"}

FirstDecl(j) ==
    LET same == {i \in 1..Len(config.sources) :
                    /\ Contains(HANDLERS, config.sources[i].handler)
                    /\ config.sources[i].resource = config.sources[j].resource}
    IN CHOOSE i \in same : \A k \in same : i <= k

\* generate has merged the results and is at, or past, its outputs.
Merged == pc \in {"outputs", "notify_all"}

\* C10: the Run Result has as many records as the job results together, the
\* records of a source declared earlier come first, and the records of one job
\* keep their order, whatever the order in which the jobs finished.
C10_MergeInDeclaredOrder ==
    Merged =>
        /\ Len(self_results) = SumLen(results)
        /\ \A a, b \in 1..Len(self_results) :
               a < b =>
                   \/ FirstDecl(self_results[a][1]) < FirstDecl(self_results[b][1])
                   \/ /\ self_results[a][1] = self_results[b][1]
                      /\ self_results[a][2] < self_results[b][2]
        /\ \A p \in 1..Len(pool_results) :
               \A k \in 1..Len(jobs[pool_results[p].job].value.recs) :
                   Count(self_results, <<pool_results[p].job, k>>) = 1

\* C10's case: the source declared second finished first, and both returned
\* records.
C10_Witness ==
    /\ Merged
    /\ Len(finished) = 2
    /\ finished[1] = 2
    /\ Len(self_results) = 2 * MaxRecs
    /\ self_results[1][1] = 1

\* ------------------------------------------------- claims on generate
\* The gather phase left no error and no None result: generate is entered and
\* merge_results succeeds.
GatherClean ==
    \A j \in DOMAIN jobs : jobs[j].status = "ok" /\ jobs[j].value.kind = "list"

\* The outputs whose handler key is not registered.
UnknownOutputs ==
    {i \in 1..Len(config.outputs) : ~Contains(HANDLERS, config.outputs[i].handler)}

\* The outputs whose try block ends in a fault.
FaultyOutputs ==
    {i \in 1..Len(config.outputs) : OutputFault(config.outputs[i]) # "None"}

RunNotesRegistered ==
    "notifications" \in DOMAIN config =>
        \A i \in 1..Len(config.notifications) :
            Contains(HANDLERS, config.notifications[i].handler)

\* C11: with raise_error false, one output with an unregistered handler and
\* all other outputs sound, the run raises nothing, and when it completes the
\* other outputs are stored, the error list is the one unknown-handler message
\* and the run-level on_failure descriptors have fired.
C11_UnknownOutputIsolated ==
    (/\ ~config.raise_error
     /\ GatherClean
     /\ RunNotesRegistered
     /\ Cardinality(UnknownOutputs) = 1
     /\ FaultyOutputs = UnknownOutputs) =>
        /\ exception = "None"
        /\ pc = "complete" =>
              /\ {stored[p] : p \in 1..Len(stored)} =
                    (1..Len(config.outputs)) \ UnknownOutputs
              /\ \E i \in UnknownOutputs :
                    errors = <<OutputMsg(config.outputs[i], "KeyError")>>
              /\ "notifications" \in DOMAIN config =>
                    \A i \in 1..Len(config.notifications) :
                        Get(config.notifications[i], "on_failure", FALSE) =>
                            \E p \in 1..Len(sent) :
                                sent[p].call.kind = "run" /\ sent[p].idx = i

\* The messages of the faulty outputs from output i on, in output order.
RECURSIVE FaultMsgsFrom(_)
FaultMsgsFrom(i) ==
    IF i > Len(config.outputs) THEN <<>>
    ELSE LET o == config.outputs[i]
         IN (IF OutputFault(o) = "None" THEN <<>>
             ELSE <<OutputMsg(o, OutputFault(o))>>) \o FaultMsgsFrom(i + 1)

\* C12: with raise_error false and every output handler registered, a fault in
\* an output's constructor or store raises nothing: every output is attempted,
\* and generate returns one message per faulty output, in output order.
C12_OutputFaultIsolated ==
    (~config.raise_error /\ GatherClean /\ UnknownOutputs = {}) =>
        /\ pc = "outputs" => exception = "None"
        /\ pc = "notify_all" =>
              /\ {stored[p] : p \in 1..Len(stored)} =
                    (1..Len(config.outputs)) \ FaultyOutputs
              /\ errors = FaultMsgsFrom(1)

\* C13: with raise_error true, a fault caught in an output's try block reaches
\* the caller as the exception type of its category: UnknownHandlerError for an
\* unregistered handler, AttributeError, or Exception.
C13_RaisesMatchingType ==
    (/\ config.raise_error
     /\ GatherClean
     /\ pc = "outputs"
     /\ exception # "None"
     /\ cursor <= Len(config.outputs)) =>
        LET fault == OutputFault(config.outputs[cursor])
        IN fault # "None" =>
              exception = IF fault = "KeyError" THEN "UnknownHandlerError" ELSE fault

\* ------------------------------------------- claims on duplicate names
\* Two dispatched sources share a resource name.
DuplicateNames ==
    \E i, k \in 1..Len(config.sources) :
        /\ i < k
        /\ Contains(HANDLERS, config.sources[i].handler)
        /\ Contains(HANDLERS, config.sources[k].handler)
        /\ config.sources[i].resource = config.sources[k].resource

\* C14: when two sources share a resource name the pool rejects the
\* configuration (the run does not get as far as the return of get_results)
\* or get_results reports an error other than a job's failure or timeout.
C14_DuplicateRejected ==
    (DuplicateNames /\ pc = "sentinel") =>
        \E p \in 1..Len(errors) :
            errors[p] \notin {FailedMsg(k) : k \in Names}
                                \cup {TimeoutMsg(k) : k \in Names}

\* ------------------------------------------------ claims on the registry
\* The lower-case form of a name: two names are letter-case variants of each
\* other when their lower-case forms are equal.
Lower(s) ==
    CASE s \in {"csv", "Csv", "CSV"} -> "csv"
      [] s \in {"json", "JSON"} -> "json"
      [] s \in {"email", "EMAIL"} -> "email"
      [] s \in {"xml", "Xml", "XML"} -> "xml"
      [] s \in {"env", "Env", "ENV"} -> "env"
      [] s \in {"auth", "AUTH"} -> "auth"
      [] s \in {"basic", "BASIC"} -> "basic"
      [] OTHER -> s

\* Some letter-case variant of name is a key of reg, or a member of a set.
VariantIn(name, keys) == \E k \in keys : Lower(k) = Lower(name)

\* The references the registry under test held at import.
Original == IF required = SYSTEM_HANDLERS THEN HANDLERS ELSE AUTH

\* C15: register fails with RegistrationError exactly when a letter-case
\* variant of the name is registered; a failed call leaves the registry as it
\* was, a successful one adds one entry, found under the name with the given
\* reference, and changes no other.
C15_RegisterIffFree ==
    regop.op = "register" =>
        LET taken == VariantIn(regop.name, DOMAIN regop.before)
        IN /\ (regop.exc = "RegistrationError") <=> taken
           /\ taken => registry = regop.before
           /\ ~taken =>
                 /\ regop.exc = "None"
                 /\ Cardinality(DOMAIN registry \ DOMAIN regop.before) = 1
                 /\ \A k \in DOMAIN regop.before :
                       k \in DOMAIN registry /\ registry[k] = regop.before[k]
                 /\ getitem(registry, regop.name) =
                       [val |-> regop.ref, exc |-> "None"]

\* C15's case: "Xml" is refused while "XML" is registered with another
\* reference, which stays.
C15_Witness ==
    /\ regop.op = "register"
    /\ regop.name = "Xml"
    /\ regop.ref = "g"
    /\ regop.exc = "RegistrationError"
    /\ "XML" \in DOMAIN registry
    /\ registry["XML"] = "f"

\* C16: unregister of a protected name, in any letter case, fails with
\* RegistrationError and changes nothing; every protected name stays
\* registered with the reference it had at import.
C16_ProtectedKept ==
    /\ (regop.op = "unregister" /\ VariantIn(regop.name, required)) =>
          regop.exc = "RegistrationError" /\ registry = regop.before
    /\ \A k \in required : k \in DOMAIN registry /\ registry[k] = Original[k]

\* C16's case: after a successful register, unregister("Csv") is refused.
C16_Witness ==
    /\ regop.op = "unregister"
    /\ regop.name = "Csv"
    /\ regop.exc = "RegistrationError"
    /\ required = SYSTEM_HANDLERS
    /\ "XML" \in DOMAIN registry

\* C17: unregister of a name that is neither registered nor protected fails
\* with RegistrationError and changes nothing.
C17_AbsentRefused ==
    (/\ regop.op = "unregister"
     /\ ~VariantIn(regop.name, DOMAIN regop.before)
     /\ ~VariantIn(regop.name, required)) =>
        regop.exc = "RegistrationError" /\ registry = regop.before

\* C18: membership and lookup ignore letter case and agree: a name is found
\* exactly when a variant of it is registered, lookup then returns the
\* registered reference and otherwise raises KeyError; after a successful
\* register every variant of the name yields the new reference, and after a
\* successful unregister no variant is found.
C18_LookupIgnoresCase ==
    /\ \A v \in RegNames :
          /\ Contains(registry, v) <=> VariantIn(v, DOMAIN registry)
          /\ Contains(registry, v) <=> getitem(registry, v).exc = "None"
          /\ ~Contains(registry, v) => getitem(registry, v).exc = "KeyError"
          /\ \A k \in DOMAIN registry :
                Lower(k) = Lower(v) => getitem(registry, v).val = registry[k]
    /\ (regop.op = "register" /\ regop.exc = "None") =>
          \A v \in RegNames :
              Lower(v) = Lower(regop.name) =>
                  /\ Contains(registry, v)
                  /\ getitem(registry, v) = [val |-> regop.ref, exc |-> "None"]
    /\ (regop.op = "unregister" /\ regop.exc = "None") =>
          \A v \in RegNames :
              Lower(v) = Lower(regop.name) =>
                  ~Contains(registry, v) /\ getitem(registry, v).exc = "KeyError"

\* C18's case: "env" was unregistered from AUTH and registered again as "Env".
C18_Witness ==
    /\ required = SYSTEM_AUTH
    /\ regop.op = "register"
    /\ regop.name = "Env"
    /\ regop.exc = "None"
    /\ regop.ref = "f"
    /\ "ENV" \notin DOMAIN regop.before
    /\ Contains(registry, "env")

\* ------------------------------------------- claims on the gather errors
\* The job records whose get() raised: the jobs that failed.
GatherFailed ==
    {p \in 1..Len(pool_results) : jobs[pool_results[p].job].status = "failed"}

\* The step that leaves 'if not errors' (line 361) enters generate exactly
\* when errors is empty, and otherwise goes to the error notifications.
EntersGenerateIffNoErrors ==
    (pc = "join" /\ pc' # "join") =>
        /\ (pc' = "generate") <=> (errors = <<>>)
        /\ errors # <<>> => (pc' = "notify_errors" /\ errors' = errors)

\* After a gather error no output handler is built and nothing is stored, and
\* every notification fired is a run-level one carrying the gather errors.
NoOutputAfterGatherError ==
    GatherFailed # {} =>
        /\ pc \notin {"generate", "outputs", "notify_all"}
        /\ stored = <<>> /\ files = <<>> /\ handler = 0 /\ self_results = <<>>
        /\ \A p \in 1..Len(sent) :
              /\ sent[p].call.kind = "run"
              /\ sent[p].errors = [q \in 1..Cardinality(GatherFailed) |->
                                      FailedMsg(pool_results[q].name)]

\* C19: run enters output generation if and only if get_results returned no
\* error; after a gather error no output handler is constructed or stored
\* into, and the run goes straight to the run-level notifications with the
\* gather errors.
C19_GenerateIffNoGatherErrors ==
    [][EntersGenerateIffNoErrors]_vars /\ []NoOutputAfterGatherError

\* C19's case: the one source failed, outputs are configured, none was stored
\* and the run completed after firing an on_failure notification.
C19_Witness ==
    /\ pc = "complete"
    /\ GatherFailed # {}
    /\ Len(config.outputs) > 0
    /\ stored = <<>>
    /\ Len(sent) > 0

\* ------------------------------------------------------- claims on wait
\* A step taken while wait() runs: elapsed grows only by one sleep, taken with
\* the pool not complete and elapsed below the timeout; wait returns only with
\* the pool complete or the timeout reached, and without a further sleep.
WaitSteps ==
    pc = "wait" =>
        /\ elapsed' # elapsed =>
              /\ ~is_complete
              /\ elapsed < config.process_timeout
              /\ elapsed' = elapsed + SleepInterval
              /\ pc' = "wait"
        /\ pc' # "wait" =>
              /\ is_complete \/ elapsed >= config.process_timeout
              /\ elapsed' = elapsed

\* wait() has slept a whole number of intervals, and no more than it takes to
\* reach the timeout; with no job submitted it has not slept at all.
WaitBounded ==
    pc \in {"wait", "pool_exit"} =>
        /\ elapsed % SleepInterval = 0
        /\ elapsed < config.process_timeout + SleepInterval
        /\ pool_results = <<>> => elapsed = 0

\* C20: wait sleeps only while the pool is not complete and elapsed is below
\* the timeout, returns without sleeping when the pool is complete already,
\* returns at the first test at which the pool is complete or the timeout is
\* reached, and always returns, after a bounded number of sleeps.
C20_WaitBoundedSleeps ==
    /\ [][WaitSteps]_vars
    /\ []WaitBounded
    /\ (pc = "wait") ~> (pc = "pool_exit")

\* C20's case: wait gave up after two sleeps with a job unfinished.
C20_Witness ==
    /\ pc = "pool_exit"
    /\ timed_out
    /\ elapsed = 2 * SleepInterval
    /\ config.process_timeout > SleepInterval

\* ------------------------------------------------ claims on is_complete
\* The jobs handed to the pool by apply_async, and those of them that have
\* returned or raised.
Submitted == {j \in DOMAIN jobs : jobs[j].status # "none"}
Finished == {j \in DOMAIN jobs : jobs[j].status \in {"ok", "failed"}}

\* C21: while the pool is open, is_complete is true exactly when every
\* submitted job has finished; in particular it is true with no job submitted.
C21_CompleteIffAllFinished ==
    pool_open => (is_complete <=> Submitted \subseteq Finished)

\* ------------------------------------------- claims on dispatch
\* The sources whose handler key is not registered.
UnknownSources ==
    {i \in 1..Len(config.sources) : ~Contains(HANDLERS, config.sources[i].handler)}

\* The sources the dispatch loop has passed.
Passed ==
    IF pc = "start" THEN {}
    ELSE IF pc = "dispatch" THEN 1..(cursor - 1)
    ELSE 1..Len(config.sources)

\* C22: a source with an unregistered handler key is never submitted and has
\* no job record, so get_results returns nothing for it; every other source
\* the loop has passed has been submitted.
C22_UnknownSourceSkipped ==
    /\ \A i \in UnknownSources :
          /\ jobs[i] = NoJob
          /\ \A p \in 1..Len(pool_results) : pool_results[p].job # i
    /\ \A i \in Passed \ UnknownSources : jobs[i].status # "none"
    /\ pc = "sentinel" =>
          \A p \in 1..Len(results) :
              \E q \in 1..Len(pool_results) :
                  /\ pool_results[q].job \notin UnknownSources
                  /\ results[p] = jobs[pool_results[q].job].value
    /\ pc = "sentinel" =>
          \A p \in 1..Len(errors) :
              \E q \in 1..Len(pool_results) :
                  /\ pool_results[q].job \notin UnknownSources
                  /\ errors[p] = FailedMsg(pool_results[q].name)

\* C22's case: the first of two sources has an unregistered handler and the
\* second one's result was returned alone.
C22_Witness ==
    /\ pc = "sentinel"
    /\ Len(config.sources) = 2
    /\ UnknownSources = {1}
    /\ pool_results = <<[name |-> config.sources[2].resource, job |-> 2]>>
    /\ Len(results) = 1
    /\ errors = <<>>

\* ------------------------------------------- claims on output order
\* The outputs whose per-output notify call constructed a handler.
NotifiedOutputs ==
    {sent[p].call.n : p \in {q \in 1..Len(sent) : sent[q].call.kind = "output"}}

\* C23: outputs are handled one at a time in declaration order: the stores
\* and the per-output notifications happen in increasing output order, when
\* output j is reached every output before it has been stored or has failed
\* and nothing of a later output has begun, and post() runs (generate
\* returns) only after the last output.
C23_OutputsInOrder ==
    /\ \A p, q \in 1..Len(stored) : p < q => stored[p] < stored[q]
    /\ \A p, q \in 1..Len(sent) :
          (p < q /\ sent[p].call.kind = "output" /\ sent[q].call.kind = "output")
              => sent[p].call.n <= sent[q].call.n
    /\ pc = "outputs" =>
          /\ \A i \in {stored[p] : p \in 1..Len(stored)} \cup NotifiedOutputs :
                IF exception = "None" THEN i < cursor ELSE i <= cursor
          /\ \A i \in 1..(cursor - 1) :
                i \in FaultyOutputs \/ \E p \in 1..Len(stored) : stored[p] = i
    /\ pc = "notify_all" =>
          /\ cursor = Len(config.outputs) + 1
          /\ \A i \in 1..Len(config.outputs) :
                i \in FaultyOutputs \/ \E p \in 1..Len(stored) : stored[p] = i

\* C23's case: two outputs with notifications of their own were stored and
\* notified, and generate has returned.
C23_Witness ==
    /\ pc = "notify_all"
    /\ stored = <<1, 2>>
    /\ NotifiedOutputs = {1, 2}

\* ------------------------------------------- claims on the log relay
\* The sentinel is on the queue or has been taken off it.
SentinelSent ==
    relay = "exited" \/ \E p \in 1..Len(logqueue) : logqueue[p] = Sentinel

\* C24: the relay forwards the records in the order they were put on the
\* queue; the sentinel is sent only after get_results has returned and is the
\* last thing put on the queue; when the relay has exited every record has
\* been delivered; and the relay has exited when generate (or the error
\* notification) starts.
C24_RelayInOrder ==
    /\ delivered = [k \in 1..Len(delivered) |-> [kind |-> "record", n |-> k]]
    /\ \A p \in 1..Len(logqueue) : logqueue[p] = Sentinel => p = Len(logqueue)
    /\ SentinelSent =>
          pc \notin {"start", "dispatch", "wait", "pool_exit", "get_results",
                     "sentinel"}
    /\ relay = "exited" => (logqueue = <<>> /\ Len(delivered) = Emitted)
    /\ pc \in {"generate", "outputs", "notify_all", "notify_errors", "complete"}
          => relay = "exited"

\* C24's case: two records were logged by the workers and delivered, the relay
\* has exited and generate is about to start.
C24_Witness ==
    /\ pc = "generate"
    /\ relay = "exited"
    /\ Len(delivered) = 2


\* Claim C25 (process count).  A pool built for n configured sources, with
\* ceiling c (twice the CPU count, or the explicit 'processes' argument when
\* one is supplied), has n processes when 0 < n < c and c otherwise: min(n, c)
\* for every n >= 1, c for n = 0, and never more than c.
Ceiling == IF override = 0 THEN 2 * CpuCount ELSE override

Min(a, b) == IF a < b THEN a ELSE b

C25_ProcessCount ==
    pc = "pool_built" =>
        LET n == Len(config.sources)
            c == Ceiling
        IN /\ (0 < n /\ n < c) => processes = n
           /\ ~(0 < n /\ n < c) => processes = c
           /\ n >= 1 => processes = Min(n, c)
           /\ n = 0 => processes = c
           /\ processes <= c

\* More sources than the explicit ceiling: the count is clamped to it.
C25_Witness ==
    /\ pc = "pool_built"
    /\ override > 0
    /\ Len(config.sources) > override
    /\ processes = override


\* Claim C26 (artifact cleanup).  FileHandler.atexit never raises; it removes
\* the artifact unless keepfile is set, and then leaves it in place; it is
\* idempotent: run again, or run when the artifact is already absent, it
\* changes nothing and raises nothing.  (An artifact the system refuses to
\* remove stays, and the call still raises nothing.)
C26_CleanupIdempotent ==
    exitop.i > 0 =>
        LET i == exitop.i
            before == exitop.before
        IN /\ exitop.exc = "None"
           /\ keepfile[i] = "true" => disk = before
           /\ (keepfile[i] # "true" /\ before[i] = "present") =>
                  disk[i] = "absent"
           /\ before[i] = "absent" => disk = before
           /\ before[i] = "locked" => disk = before
           /\ exitcalls[i] >= 2 => disk = before
           /\ \A j \in DOMAIN disk : j # i => disk[j] = before[j]

\* The second cleanup of an artifact the first one removed.
C26_Witness ==
    /\ exitop.i > 0
    /\ exitcalls[exitop.i] >= 2
    /\ keepfile[exitop.i] # "true"
    /\ exitop.before[exitop.i] = "absent"
    /\ disk[exitop.i] = "absent"
    /\ exitop.exc = "None"
    /\ \E j \in DOMAIN disk : keepfile[j] = "true" /\ disk[j] = "present"
                                 /\ exitcalls[j] >= 1


\* Claim C27 (run-level notifications fire once).  In one call of Process.run
\* each run-level notification descriptor has its handler constructed and
\* send invoked at most once, whether the errors came from gather or from
\* output generation.
RunFirings(idx) ==
    {p \in DOMAIN sent : sent[p].call.kind = "run" /\ sent[p].idx = idx}

C27_FiredOnce ==
    "notifications" \in DOMAIN config =>
        \A idx \in DOMAIN config.notifications :
            Cardinality(RunFirings(idx)) <= 1

\* Claim C28 (per-output notifications carry their own output only).  The
\* notifications of output i are fired with output i's own errors only and
\* with a file list holding output i's own artifact path only, never an
\* earlier output's; also when output i's handler could not be constructed or
\* its store failed, also when i is the first output.
OutputFirings(i) ==
    {p \in DOMAIN sent : sent[p].call.kind = "output" /\ sent[p].call.n = i}

C28_OwnFileOnly ==
    \A i \in DOMAIN config.outputs :
        /\ \A p \in OutputFirings(i) :
              /\ sent[p].files = <<config.outputs[i].resource>>
              /\ \A q \in DOMAIN sent[p].errors :
                    sent[p].errors[q] = OutputMsg(config.outputs[i],
                                                  OutputFault(config.outputs[i]))
        /\ ("notifications" \in DOMAIN config.outputs[i] /\ pc = "outputs"
            /\ cursor = i /\ ~config.raise_error
            /\ OutputFault(config.outputs[i]) \in {"Exception", "AttributeError"})
           => exception \notin {"UnboundLocalError", "AttributeError"}

====
